---- MODULE Spec2Model ----
(***************************************************************************)
(* A model of cerebro-api: manifest loading (app/manifest.py), route       *)
(* synthesis (app/factory.py), authentication, tier checks and the rate    *)
(* limiter (app/security.py), settings (app/config.py) and the application *)
(* assembly (app/main.py).                                                 *)
(*                                                                         *)
(* Python strings whose content the code inspects (startswith, regular     *)
(* expressions, substring tests, formatting) are sequences of              *)
(* one-character strings.  Opaque values (API keys, addresses) are TLA+    *)
(* strings.                                                                *)
(***************************************************************************)
EXTENDS Integers, Sequences, FiniteSets, TLC

VARIABLES
    user_tier, required_tier, access,
    pc, url_result, local_result, manual_yaml, load_trace, models,
    routes, boot_error,
    api_keys, last, now, storage, sent,
    sql_route, sql_a, sql_b, sql_out

vars == <<user_tier, required_tier, access,
          pc, url_result, local_result, manual_yaml, load_trace, models,
          routes, boot_error,
          api_keys, last, now, storage, sent,
          sql_route, sql_a, sql_b, sql_out>>

tierVars == <<user_tier, required_tier, access>>
bootVars == <<pc, url_result, local_result, manual_yaml, load_trace, models,
              routes, boot_error>>
serveVars == <<api_keys, last, now, storage, sent>>
sqlVars == <<sql_route, sql_a, sql_b, sql_out>>

\* Python's None, comparable with every string of the model and equal to none.
None == <<"<None>">>

-----------------------------------------------------------------------------
(* Character-level helpers: str.lower(), str.startswith(), `in`, int().    *)

Digits == <<"0", "1", "2", "3", "4", "5", "6", "7", "8", "9">>

IsDigit(c) == \E i \in 1..Len(Digits) : Digits[i] = c

DigitVal(c) == (CHOOSE i \in 1..Len(Digits) : Digits[i] = c) - 1

\* str.lower() on one character (the upper-case letters the model uses).
LowerChar(c) ==
    CASE c = "T" -> "t"
      [] c = "I" -> "i"
      [] c = "E" -> "e"
      [] c = "R" -> "r"
      [] c = "P" -> "p"
      [] OTHER -> c

Lower(s) == [i \in 1..Len(s) |-> LowerChar(s[i])]

StartsWith(s, p) == Len(s) >= Len(p) /\ SubSeq(s, 1, Len(p)) = p

\* Python's `sub in s` on strings.
Contains(s, sub) ==
    \E i \in 1..(Len(s) - Len(sub) + 1) : SubSeq(s, i, i + Len(sub) - 1) = sub

\* int() of a non-empty run of decimal digits.
RECURSIVE ParseInt(_)
ParseInt(ds) ==
    IF Len(ds) = 0 THEN 0
    ELSE 10 * ParseInt(SubSeq(ds, 1, Len(ds) - 1)) + DigitVal(ds[Len(ds)])

s_tier == <<"t", "i", "e", "r">>

\* re.match(r'^tier(\d+)$', s): the digits of group 1, or <<>> for no match.
\* `$` also matches just before one trailing newline.
TierReMatch(s) ==
    LET body == IF Len(s) > 0 /\ s[Len(s)] = "\n"
                THEN SubSeq(s, 1, Len(s) - 1) ELSE s
        ds   == SubSeq(body, Len(s_tier) + 1, Len(body))
    IN  IF StartsWith(body, s_tier) /\ Len(ds) >= 1
           /\ \A i \in 1..Len(ds) : IsDigit(ds[i])
        THEN ds ELSE <<>>

-----------------------------------------------------------------------------
(* app/security.py: the tier hierarchy.                                    *)

TierName(d) == s_tier \o <<d>>

TIER_LEVELS ==
    [t \in {TierName("0"), TierName("1"), TierName("2"), TierName("3")}
        |-> DigitVal(t[5])]

\* A plausible slip: the regular expression applied without lower-casing.
get_tier_level_nolower(tier) ==
    IF tier \in DOMAIN TIER_LEVELS THEN TIER_LEVELS[tier]
    ELSE IF TierReMatch(tier) # <<>> THEN ParseInt(TierReMatch(tier))
    ELSE -1

get_tier_level(tier) ==
    IF tier \in DOMAIN TIER_LEVELS THEN TIER_LEVELS[tier]
    ELSE IF TierReMatch(Lower(tier)) # <<>> THEN ParseInt(TierReMatch(Lower(tier)))
    ELSE -1

can_access_tier(user, required) ==
    LET user_level     == get_tier_level(user)
        required_level == get_tier_level(required)
    IN  IF user_level < 0 \/ required_level < 0 THEN FALSE
        ELSE user_level >= required_level

\* Tier strings the tier specification ranges over.
TierStrings ==
    { TierName("0"), TierName("1"), TierName("2"), TierName("3"),
      TierName("7"), s_tier \o <<"1", "2">>, s_tier \o <<"0", "2">>,
      <<"T", "i", "e", "r", "1">>, <<"T", "I", "E", "R", "2">>,
      s_tier \o <<"1", "\n">>, s_tier \o <<"3", "\n", "\n">>,
      <<>>, s_tier, s_tier \o <<"x">>, s_tier \o <<"1", "x">>,
      <<"x">> \o s_tier \o <<"1">>, s_tier \o <<"-", "1">>,
      s_tier \o <<" ", "1">>, <<"b", "o", "g", "u", "s">>,
      <<"p", "r", "o">> }

-----------------------------------------------------------------------------
(* String literals of the source and of the inputs.                        *)

s_api_prefix == <<"a", "p", "i", "_">>
s_production == <<"p", "r", "o", "d", "u", "c", "t", "i", "o", "n">>
s_block_timestamp == <<"b", "l", "o", "c", "k", "_", "t", "i", "m", "e", "s", "t", "a", "m", "p">>
s_date == <<"d", "a", "t", "e">>
s_timestamp == <<"t", "i", "m", "e", "s", "t", "a", "m", "p">>
s_address == <<"a", "d", "d", "r", "e", "s", "s">>
s_project == <<"p", "r", "o", "j", "e", "c", "t">>
s_sector == <<"s", "e", "c", "t", "o", "r">>
s_label == <<"l", "a", "b", "e", "l">>
s_status == <<"s", "t", "a", "t", "u", "s">>
s_Date == <<"D", "a", "t", "e">>
s_Time == <<"T", "i", "m", "e">>
s_String == <<"S", "t", "r", "i", "n", "g">>
s_start_date == <<"s", "t", "a", "r", "t", "_", "d", "a", "t", "e">>
s_end_date == <<"e", "n", "d", "_", "d", "a", "t", "e">>
s_ge == <<">", "=">>
s_le == <<"<", "=">>
s_eq == <<"=">>
s_ILIKE == <<"I", "L", "I", "K", "E">>
s_LIKE == <<"L", "I", "K", "E">>
s_type_date == <<"d", "a", "t", "e">>
s_type_string == <<"s", "t", "r", "i", "n", "g">>
s_DESC == <<" ", "D", "E", "S", "C">>
s_default == <<"d", "e", "f", "a", "u", "l", "t">>
s_model == <<"m", "o", "d", "e", "l">>

\* Input strings: model names, column types, schema names.
s_api_a == <<"a", "p", "i", "_", "a">>
s_api_b == <<"a", "p", "i", "_", "b">>
s_foo == <<"f", "o", "o">>
s_ghost == <<"g", "h", "o", "s", "t">>
s_DateTime == <<"D", "a", "t", "e", "T", "i", "m", "e">>
s_DateTime64 == <<"D", "a", "t", "e", "T", "i", "m", "e", "6", "4", "(", "3", ")">>
s_UInt64 == <<"U", "I", "n", "t", "6", "4">>
s_day == <<"d", "a", "y">>
s_value == <<"v", "a", "l", "u", "e">>
s_dbt == <<"d", "b", "t">>
s_gold == <<"g", "o", "l", "d">>

\* Membership of a value in a Python list.
InSeq(x, s) == \E i \in 1..Len(s) : s[i] = x

-----------------------------------------------------------------------------
(* app/config.py: the fields class Settings declares.                      *)

SettingsFields ==
    { "API_TITLE", "API_VERSION", "DEBUG", "DBT_MANIFEST_URL",
      "DBT_MANIFEST_PATH", "API_CONFIG_PATH", "CLICKHOUSE_HOST",
      "CLICKHOUSE_PORT", "CLICKHOUSE_USER", "CLICKHOUSE_PASSWORD",
      "CLICKHOUSE_DATABASE", "CLICKHOUSE_SECURE", "API_KEYS" }

\* Reading settings.<field>: an attribute the class does not declare raises
\* AttributeError.
SettingsHas(field) == field \in SettingsFields

-----------------------------------------------------------------------------
(* app/manifest.py: ManifestLoader.                                        *)
(*                                                                         *)
(* A manifest document is [empty, nodes]: `empty` is the JSON value being  *)
(* falsy ({}), `nodes` the entries of data["nodes"] in document order.  A  *)
(* node is [resource_type, name, schema, alias, tags, columns]; columns is *)
(* the ordered mapping, a sequence of [name, data_type].                   *)

NoData == [is_none |-> TRUE, empty |-> TRUE, nodes |-> <<>>]

Truthy(data) == ~data.is_none /\ ~data.empty

\* The data after step 1 (lines 20-31): only a 200 response whose body
\* parses yields data.
UrlStep(url) ==
    IF url.kind = "ok" THEN url.doc ELSE NoData

\* Line 34: the local file is read when no (truthy) data came from the URL
\* and the path exists.
LocalIsRead(data1, localr) == ~Truthy(data1) /\ localr.kind # "absent"

\* The data after step 2 (lines 33-40): a parse failure leaves data as it was.
LocalStep(data1, localr) ==
    IF LocalIsRead(data1, localr) /\ localr.kind = "ok" THEN localr.doc
    ELSE data1

\* The attempts made, in order.
LoadAttempts(url, localr) ==
    (IF url.kind # "not_configured" THEN <<"url">> ELSE <<>>)
    \o (IF LocalIsRead(UrlStep(url), localr) THEN <<"local">> ELSE <<>>)

\* dict assignment d[name] = node on an ordered mapping kept as a sequence.
DictPut(d, node) ==
    IF \E i \in 1..Len(d) : d[i].name = node.name
    THEN [i \in 1..Len(d) |-> IF d[i].name = node.name THEN node ELSE d[i]]
    ELSE Append(d, node)

\* Lines 46-50: index the nodes whose resource_type is "model".
RECURSIVE IndexNodes(_, _)
IndexNodes(d, nodes) ==
    IF Len(nodes) = 0 THEN d
    ELSE IndexNodes(IF nodes[1].resource_type = "model"
                    THEN DictPut(d, nodes[1]) ELSE d,
                    Tail(nodes))

\* _load_manifest as a whole: the model index it leaves.
LoadedModels(url, localr) ==
    LET data == LocalStep(UrlStep(url), localr)
    IN  IF ~Truthy(data) THEN <<>> ELSE IndexNodes(<<>>, data.nodes)

get_all_models(ms) == [i \in 1..Len(ms) |-> ms[i].name]

HasModel(ms, name) == \E i \in 1..Len(ms) : ms[i].name = name

\* get_model for an indexed name.
get_model(ms, name) == ms[CHOOSE i \in 1..Len(ms) : ms[i].name = name]

get_table_name(ms, name) ==
    IF HasModel(ms, name)
    THEN LET node == get_model(ms, name)
         IN  (IF node.schema = None THEN s_default ELSE node.schema)
             \o <<".">>
             \o (IF node.alias = None THEN name ELSE node.alias)
    ELSE name

get_columns(ms, name) ==
    IF ~HasModel(ms, name) THEN <<>>
    ELSE LET cs == get_model(ms, name).columns
         IN  [i \in 1..Len(cs) |->
                [name |-> cs[i].name,
                 data_type |-> IF cs[i].data_type = None THEN s_String
                               ELSE cs[i].data_type]]

get_tags(ms, name) ==
    IF ~HasModel(ms, name) THEN <<>> ELSE get_model(ms, name).tags


-----------------------------------------------------------------------------
(* app/factory.py: DynamicRouter.                                          *)
(*                                                                         *)
(* The manual configuration is [kind, endpoints]: kind "absent" (no file,  *)
(* _load_manual_config returns {}), "empty" (yaml.safe_load of an empty    *)
(* file returns None) or "dict".  An endpoint entry is                     *)
(* [model, path, tier, order_by, parameters], None for a key the entry     *)
(* does not have; a missing "parameters" and an empty list behave alike    *)
(* (line 144 falls back to [] and line 147 tests `not allowed_params`).    *)
(* A route is what add_api_route and the handler's closure keep:           *)
(* [name, path, required_tier, allowed_params, order_by, table_name].  The *)
(* summary and the Swagger tags are derived without a failure case and are *)
(* not kept.                                                               *)

\* The override of a model no manual entry names: {}.
EmptyOverride ==
    [model |-> None, path |-> None, tier |-> None, order_by |-> None,
     parameters |-> <<>>]

\* A plausible slip: `or` in place of the nested `if`s.
IsAutoSelected_or(ms, name) ==
    StartsWith(name, s_api_prefix) \/ InSeq(s_production, get_tags(ms, name))

\* Lines 36-39: the auto-discovery test.
IsAutoSelected(ms, name) ==
    StartsWith(name, s_api_prefix) /\ InSeq(s_production, get_tags(ms, name))

\* Lines 32-39.
models_to_expose(ms) ==
    { get_all_models(ms)[i] : i \in { j \in 1..Len(ms) :
                                        IsAutoSelected(ms, ms[j].name) } }

\* Line 43: manual_map = {ep["model"]: ep ...}.get(name, {}); a later entry
\* of the same model replaces an earlier one.
ManualGet(eps, name) ==
    IF \E i \in 1..Len(eps) : eps[i].model = name
    THEN eps[CHOOSE i \in 1..Len(eps) :
                /\ eps[i].model = name
                /\ \A j \in 1..Len(eps) : eps[j].model = name => j <= i]
    ELSE EmptyOverride

\* Lines 100-116: the first tag matching ^tier\d+$ once lower-cased, itself
\* lower-cased; None when no tag matches.
RECURSIVE FirstTierTag(_)
FirstTierTag(tags) ==
    IF Len(tags) = 0 THEN None
    ELSE IF TierReMatch(Lower(tags[1])) # <<>> THEN Lower(tags[1])
    ELSE FirstTierTag(Tail(tags))

\* _get_required_tier: [ok, val].  Without a tier tag it reads
\* settings.DEFAULT_ENDPOINT_TIER, which raises AttributeError (ok = FALSE)
\* for a field Settings does not declare.
get_required_tier(tags) ==
    IF FirstTierTag(tags) # None
    THEN [ok |-> TRUE, val |-> FirstTierTag(tags)]
    ELSE [ok |-> SettingsHas("DEFAULT_ENDPOINT_TIER"), val |-> None]

\* str.replace(a, b) for single characters.
ReplaceChar(s, a, b) == [i \in 1..Len(s) |-> IF s[i] = a THEN b ELSE s[i]]

\* Lines 126-130.
UrlPath(model_name, override) ==
    LET clean_name == IF StartsWith(model_name, s_api_prefix)
                      THEN SubSeq(model_name, 5, Len(model_name))
                      ELSE model_name
    IN  IF override.path # None THEN override.path
        ELSE <<"/">> \o ReplaceChar(clean_name, "_", "/")

\* The date-like columns, in column order: the type contains 'Date' or
\* 'Time', or the name is one of `names` (lines 149-153 and 191-195).
DateCols(columns, names) ==
    LET IsDate(c) == \/ Contains(c.data_type, s_Date)
                     \/ Contains(c.data_type, s_Time)
                     \/ InSeq(c.name, names)
    IN  SelectSeq(columns, IsDate)

HasColumn(columns, name) == \E i \in 1..Len(columns) : columns[i].name = name

Param(name, column, operator, type) ==
    [name |-> name, column |-> column, operator |-> operator, type |-> type]

\* A plausible slip: the last date-like column instead of the first.
MainDateCol_last(date_cols) == date_cols[Len(date_cols)].name

\* Line 155: main_date_col = date_cols[0].
MainDateCol(date_cols) == date_cols[1].name

\* Lines 144-186: the filter parameters.
AllowedParams(columns, override) ==
    IF Len(override.parameters) > 0 THEN override.parameters
    ELSE
      LET date_cols == DateCols(columns,
                                <<s_date, s_timestamp, s_block_timestamp>>)
          common    == SelectSeq(<<s_project, s_sector, s_label, s_status>>,
                                 LAMBDA col : HasColumn(columns, col))
      IN  (IF Len(date_cols) > 0
           THEN << Param(s_start_date, MainDateCol(date_cols), s_ge, s_type_date),
                   Param(s_end_date, MainDateCol(date_cols), s_le, s_type_date) >>
           ELSE <<>>)
          \o (IF HasColumn(columns, s_address)
              THEN << Param(s_address, s_address, s_ILIKE, s_type_string) >>
              ELSE <<>>)
          \o [i \in 1..Len(common) |->
                Param(common[i], common[i], s_eq, s_type_string)]

\* Lines 188-197: the default ordering; None when there is none.
OrderBy(columns, override) ==
    IF override.order_by # None /\ override.order_by # <<>>
    THEN override.order_by
    ELSE LET date_cols == DateCols(columns, <<s_date, s_timestamp>>)
         IN  IF Len(date_cols) > 0 THEN MainDateCol(date_cols) \o s_DESC
             ELSE None

\* _create_auto_route: [ok, route, err].  The default of
\* override.get("tier", ...) is evaluated whether or not the override has a
\* tier (line 141); the description reads dbt_node.get(...) (line 253), and
\* dbt_node is None for a model the manifest does not index.
create_auto_route(ms, model_name, override) ==
    LET columns == get_columns(ms, model_name)
        derived == get_required_tier(get_tags(ms, model_name))
        route   ==
          [name           |-> model_name,
           path           |-> UrlPath(model_name, override),
           required_tier  |-> IF override.tier # None THEN override.tier
                              ELSE derived.val,
           allowed_params |-> AllowedParams(columns, override),
           order_by       |-> OrderBy(columns, override),
           table_name     |-> get_table_name(ms, model_name)]
    IN  IF ~derived.ok
        THEN [ok |-> FALSE, route |-> route,
              err |-> "AttributeError: Settings.DEFAULT_ENDPOINT_TIER"]
        ELSE IF ~HasModel(ms, model_name)
        THEN [ok |-> FALSE, route |-> route,
              err |-> "AttributeError: NoneType.get"]
        ELSE [ok |-> TRUE, route |-> route, err |-> ""]

\* The calls of _create_auto_route one after the other, up to the first
\* that raises.
RECURSIVE RunCalls(_, _, _)
RunCalls(ms, calls, done) ==
    IF Len(calls) = 0 THEN [routes |-> done, err |-> ""]
    ELSE LET r == create_auto_route(ms, calls[1].model, calls[1].override)
         IN  IF r.ok THEN RunCalls(ms, Tail(calls), Append(done, r.route))
             ELSE [routes |-> done, err |-> r.err]

\* Lines 50-53: one call per manual entry whose model auto-discovery did not
\* select.
ManualCalls(ms, eps) ==
    LET rest == SelectSeq(eps, LAMBDA ep : ep.model \notin models_to_expose(ms))
    IN  [i \in 1..Len(rest) |-> [model |-> rest[i].model, override |-> rest[i]]]

\* _build_routes: [routes, err].  `order` is the iteration order of the set
\* models_to_expose.
build_routes(ms, manual, order) ==
    IF manual.kind = "empty"
    THEN [routes |-> <<>>, err |-> "AttributeError: NoneType.get"]
    ELSE LET eps == manual.endpoints
         IN  RunCalls(ms,
                      [i \in 1..Len(order) |->
                         [model |-> order[i],
                          override |-> ManualGet(eps, order[i])]]
                      \o ManualCalls(ms, eps),
                      <<>>)

\* The orders in which a Python set can be iterated.
Orders(S) ==
    { s \in [1..Cardinality(S) -> S] :
        \A i, j \in 1..Cardinality(S) : i # j => s[i] # s[j] }

-----------------------------------------------------------------------------
(* Start-up: `import app.main` imports app.manifest (the ManifestLoader    *)
(* singleton is constructed and loads), then app.factory (DynamicRouter()  *)
(* builds the routes), then main.py builds the application.  An exception  *)
(* in any of them ends the process.                                        *)

LoadManifest ==
    /\ pc = "start"
    /\ models' = LoadedModels(url_result, local_result)
    /\ load_trace' = LoadAttempts(url_result, local_result)
    /\ pc' = "manifest_loaded"
    /\ UNCHANGED <<url_result, local_result, manual_yaml, routes, boot_error>>
    /\ UNCHANGED tierVars
    /\ UNCHANGED sqlVars
    /\ UNCHANGED serveVars

BuildRoutes ==
    /\ pc = "manifest_loaded"
    /\ \E order \in Orders(models_to_expose(models)) :
         LET r == build_routes(models, manual_yaml, order)
         IN  /\ routes' = r.routes
             /\ boot_error' = r.err
             /\ pc' = IF r.err = "" THEN "routes_built" ELSE "crashed"
    /\ UNCHANGED <<url_result, local_result, manual_yaml, load_trace, models>>
    /\ UNCHANGED tierVars
    /\ UNCHANGED sqlVars
    /\ UNCHANGED serveVars

\* main.py lines 9-29: the FastAPI application with the root endpoint and
\* the router mounted; from here on the process serves.
StartApp ==
    /\ pc = "routes_built"
    /\ pc' = "serving"
    /\ UNCHANGED <<url_result, local_result, manual_yaml, load_trace, models,
                   routes, boot_error>>
    /\ UNCHANGED tierVars
    /\ UNCHANGED sqlVars
    /\ UNCHANGED serveVars

NextBoot == LoadManifest \/ BuildRoutes \/ StartApp


-----------------------------------------------------------------------------
(* app/security.py: authentication and the tier check of a request.        *)
(*                                                                         *)
(* settings.API_KEYS is Dict[str, str] (config.py line 25): pydantic       *)
(* validates every value as a string, so an entry is [type |-> "str",      *)
(* tier |-> the string].  The functions below are written for entries of   *)
(* type "dict" ({user, tier, org}) as well, which is what their .copy()    *)
(* and .get() calls need; a string has no .copy().                         *)
(* A header is a TLA+ string; NoHeader stands for the header being absent  *)
(* (APIKeyHeader with auto_error=False gives None).                        *)

NoHeader == "<no header>"

\* Python's `not api_key_header`.
HeaderIsFalsy(h) == h = NoHeader \/ h = ""

NoUser == [user |-> "", tier |-> None, api_key |-> NoHeader]

ANONYMOUS_USER_INFO ==
    [user |-> "anonymous", tier |-> TierName("0"), api_key |-> NoHeader]

Raise(status, detail) ==
    [ok |-> FALSE, status |-> status, detail |-> detail, user_info |-> NoUser]

Return(user_info) ==
    [ok |-> TRUE, status |-> 200, detail |-> "", user_info |-> user_info]

\* settings.API_KEYS[key].copy() with the key attached (lines 121-123 and
\* 99-101): AttributeError, answered as 500, when the entry is a string.
CopyUserInfo(keys, h) ==
    IF keys[h].type = "dict"
    THEN Return([user |-> keys[h].user, tier |-> keys[h].tier, api_key |-> h])
    ELSE Raise(500, "AttributeError: 'str' object has no attribute 'copy'")

get_optional_api_key(h, keys) ==
    IF HeaderIsFalsy(h) THEN Return(ANONYMOUS_USER_INFO)
    ELSE IF h \in DOMAIN keys THEN CopyUserInfo(keys, h)
    ELSE Raise(403, "Invalid API Key")

\* A plausible slip: the optional check wired in place of the mandatory one.
get_api_key_optional(h, keys) == get_optional_api_key(h, keys)

get_api_key(h, keys) ==
    IF HeaderIsFalsy(h)
    THEN Raise(403, "Missing authentication header: X-API-Key")
    ELSE IF h \in DOMAIN keys THEN CopyUserInfo(keys, h)
    ELSE Raise(403, "Invalid API Key")

\* check_tier_access: TRUE when it returns, FALSE when it raises 403.
check_tier_access(user_info, required) ==
    can_access_tier(IF user_info.tier = None THEN TierName("0")
                    ELSE user_info.tier,
                    required)

\* get_rate_limit_key: the API key when present, else the caller's address.
get_rate_limit_key(h, addr) == IF HeaderIsFalsy(h) THEN addr ELSE h

-----------------------------------------------------------------------------
(* The rate limiter (security.py lines 26-31): "200/minute", fixed window, *)
(* in memory.  An entry of the storage is [count, until]: the hits of the  *)
(* window that ends at `until`.                                            *)

RateLimit == 200

WindowSeconds == 60

\* One hit at time t: a new window starts when the entry has expired.
Hit(entry, t) ==
    IF entry.count = 0 \/ t >= entry.until
    THEN [count |-> 1, until |-> t + WindowSeconds]
    ELSE [count |-> entry.count + 1, until |-> entry.until]

\* main.py lines 9-29 add no middleware to the application (the limiter is
\* put in app.state and the RateLimitExceeded handler is registered), and
\* factory.py lines 205-265 register the handlers without limiter.limit.
Middleware == {}

LimitedEndpoints == {}

\* The limiter is consulted for a request only by SlowAPIMiddleware or by a
\* handler decorated with limiter.limit.
LimiterConsulted(endpoint) ==
    "SlowAPIMiddleware" \in Middleware \/ endpoint \in LimitedEndpoints

-----------------------------------------------------------------------------
(* app/factory.py lines 205-247: dynamic_handler.                          *)
(*                                                                         *)
(* The query string is the sequence of its [name, value] pairs;            *)
(* query_params.get gives the first value of a name.  The bindings are     *)
(* [limit, offset, filters], filters the p_<name> entries in insertion     *)
(* order.                                                                  *)

s_select == <<"S", "E", "L", "E", "C", "T", " ", "*", " ", "F", "R", "O", "M", " ">>
s_where == <<" ", "W", "H", "E", "R", "E", " ">>
s_and == <<" ", "A", "N", "D", " ">>
s_order_by == <<" ", "O", "R", "D", "E", "R", " ", "B", "Y", " ">>
s_limit_offset == <<" ", "L", "I", "M", "I", "T", " ", "%", "(", "l", "i", "m", "i", "t", ")", "s", " ", "O", "F", "F", "S", "E", "T", " ", "%", "(", "o", "f", "f", "s", "e", "t", ")", "s">>
s_p_ == <<"p", "_">>
s_ph_open == <<" ", "%", "(">>
s_ph_close == <<")", "s">>

\* request.query_params.get(name): None when the name is absent, the value
\* of the last pair of that name otherwise.
QueryGet(qp, name) ==
    IF \E i \in 1..Len(qp) : qp[i].name = name
    THEN qp[CHOOSE i \in 1..Len(qp) :
               /\ qp[i].name = name
               /\ \A j \in (i + 1)..Len(qp) : qp[j].name # name].value
    ELSE None

\* Python's `if val`: present and not empty.
Supplied(qp, name) == QueryGet(qp, name) # None /\ QueryGet(qp, name) # <<>>

Operator(param) == IF param.operator = None THEN s_eq ELSE param.operator

\* A plausible slip: the value formatted into the predicate.
Predicate_inline(param, val) ==
    param.column \o <<" ">> \o Operator(param) \o <<" ", "'">> \o val \o <<"'">>

\* Lines 229 and 232: f"{p_col} {p_op} %({key})s".
Predicate(param, val) ==
    param.column \o <<" ">> \o Operator(param)
    \o s_ph_open \o s_p_ \o param.name \o s_ph_close

\* Lines 228-233: the value bound for a filter.
BoundValue(param, val) ==
    IF Contains(Operator(param), s_LIKE) /\ ~Contains(val, <<"%">>)
    THEN <<"%">> \o val \o <<"%">>
    ELSE val

\* query_params[key] = value.
BindPut(filters, key, value) ==
    IF \E i \in 1..Len(filters) : filters[i].key = key
    THEN [i \in 1..Len(filters) |->
            IF filters[i].key = key THEN [key |-> key, value |-> value]
            ELSE filters[i]]
    ELSE Append(filters, [key |-> key, value |-> value])

\* Lines 218-233: the loop over allowed_params; [where_parts, filters].
RECURSIVE Filters(_, _, _)
Filters(params, qp, acc) ==
    IF Len(params) = 0 THEN acc
    ELSE LET param == params[1]
             val   == QueryGet(qp, param.name)
         IN  Filters(Tail(params), qp,
                     IF Supplied(qp, param.name)
                     THEN [where_parts |->
                             Append(acc.where_parts, Predicate(param, val)),
                           filters |->
                             BindPut(acc.filters, s_p_ \o param.name,
                                     BoundValue(param, val))]
                     ELSE acc)

\* " AND ".join(parts).
RECURSIVE Join(_, _)
Join(parts, sep) ==
    IF Len(parts) = 0 THEN <<>>
    ELSE IF Len(parts) = 1 THEN parts[1]
    ELSE parts[1] \o sep \o Join(Tail(parts), sep)

\* Lines 214-241: the statement and its bindings.
BuildSql(route, qp, limit, offset) ==
    LET f == Filters(route.allowed_params, qp,
                     [where_parts |-> <<>>, filters |-> <<>>])
    IN  [sql |-> s_select \o route.table_name
                 \o (IF Len(f.where_parts) > 0
                     THEN s_where \o Join(f.where_parts, s_and) ELSE <<>>)
                 \o (IF route.order_by # None /\ route.order_by # <<>>
                     THEN s_order_by \o route.order_by ELSE <<>>)
                 \o s_limit_offset,
         bindings |-> [limit |-> limit, offset |-> offset,
                       filters |-> f.filters]]

NoBindings == [limit |-> 0, offset |-> 0, filters |-> <<>>]

Answer(status, detail) ==
    [status |-> status, detail |-> detail, queried |-> FALSE, sql |-> None,
     bindings |-> NoBindings]

\* The handler's body: the tier check, then the statement, then
\* ClickHouseClient.query, whose failure is answered as 500.
dynamic_handler(route, user_info, qp, limit, offset, db_ok) ==
    IF ~check_tier_access(user_info, route.required_tier)
    THEN Answer(403, "Access denied")
    ELSE LET q == BuildSql(route, qp, limit, offset)
         IN  [status |-> IF db_ok THEN 200 ELSE 500,
              detail |-> IF db_ok THEN "rows" ELSE "database error",
              queried |-> TRUE, sql |-> q.sql, bindings |-> q.bindings]

\* A GET on a synthesized route: FastAPI solves the dependency get_api_key,
\* whose exception ends the request, then validates limit (1..5000) and
\* offset (>= 0), then calls the handler.
RouteResponse(route, keys, h, qp, limit, offset, db_ok) ==
    LET auth == get_api_key(h, keys)
    IN  IF ~auth.ok THEN Answer(auth.status, auth.detail)
        ELSE IF ~(limit >= 1 /\ limit <= 5000 /\ offset >= 0)
        THEN Answer(422, "validation error")
        ELSE dynamic_handler(route, auth.user_info, qp, limit, offset, db_ok)

\* The root path.
s_root == <<"/">>

\* main.py lines 32-38: the status endpoint.
RootResponse == Answer(200, "online")

NoRequest ==
    [endpoint |-> None, header |-> NoHeader, limit_key |-> "", qp |-> <<>>,
     limit |-> 0, offset |-> 0, response |-> Answer(0, "")]

Addresses == {"10.0.0.1"}

\* The limiting keys of the requests the specifications make.
LimitKeys == {"k1", "k2", "zz"} \cup Addresses

NoHits == [k \in LimitKeys |-> [count |-> 0, until |-> 0]]

\* One request served at time `now`.  `endpoint` is s_root or the name of a
\* registered route (the first registered of that name answers).  `counted`
\* is the record of `sent` after the request.
Serve(endpoint, h, addr, qp, limit, offset, db_ok, counted) ==
    LET key     == get_rate_limit_key(h, addr)
        limited == LimiterConsulted(endpoint)
        hit     == Hit(storage[key], now)
        resp    == IF limited /\ hit.count > RateLimit
                   THEN Answer(429, "Rate limit exceeded")
                   ELSE IF endpoint = s_root THEN RootResponse
                   ELSE RouteResponse(
                          routes[CHOOSE i \in 1..Len(routes) :
                                    /\ routes[i].name = endpoint
                                    /\ \A j \in 1..(i - 1) :
                                          routes[j].name # endpoint],
                          api_keys, h, qp, limit, offset, db_ok)
    IN  /\ pc = "serving"
        /\ storage' = IF limited THEN [storage EXCEPT ![key] = hit]
                      ELSE storage
        /\ last' = [endpoint |-> endpoint, header |-> h, limit_key |-> key,
                    qp |-> qp, limit |-> limit, offset |-> offset,
                    response |-> resp]
        /\ sent' = counted
        /\ UNCHANGED <<api_keys, now>>
        /\ UNCHANGED bootVars
        /\ UNCHANGED tierVars
        /\ UNCHANGED sqlVars

\* No statement has been built.
SqlIdle ==
    /\ sql_route = None
    /\ sql_a = None
    /\ sql_b = None
    /\ sql_out = None

ServeIdle ==
    /\ SqlIdle
    /\ api_keys = <<>>
    /\ last = NoRequest
    /\ now = 0
    /\ storage = NoHits
    /\ sent = NoHits


-----------------------------------------------------------------------------
(* Inputs of the start-up specification: manifest documents, the outcome   *)
(* of each manifest source, manual configurations.                         *)

\* The longest list of manual endpoint entries.
MaxEndpoints == 2

Col(name, type) == [name |-> name, data_type |-> type]

Node(kind, name, tags, columns) ==
    [resource_type |-> kind, name |-> name, schema |-> None, alias |-> None,
     tags |-> tags, columns |-> columns]

ModelNames == {s_api_a, s_api_b, s_foo}

TagLists ==
    { <<s_production, TierName("1")>>,
      <<s_production>>,
      <<TierName("2")>>,
      <<s_dbt, <<"T", "i", "e", "r", "0">>, s_production>> }

ColumnLists ==
    { <<>>,
      <<Col(s_block_timestamp, s_DateTime), Col(s_value, s_UInt64)>>,
      <<Col(s_date, s_Date), Col(s_block_timestamp, s_DateTime)>>,
      <<Col(s_block_timestamp, s_DateTime64), Col(s_day, s_Date),
        Col(s_address, s_String)>>,
      <<Col(s_value, s_UInt64), Col(s_block_timestamp, s_DateTime),
        Col(s_status, None)>>,
      <<Col(s_block_timestamp, s_String)>>,
      <<Col(s_timestamp, s_UInt64), Col(s_block_timestamp, s_DateTime)>> }

DefaultColumns == <<Col(s_block_timestamp, s_DateTime), Col(s_value, s_UInt64)>>

Doc(nodes) == [is_none |-> FALSE, empty |-> FALSE, nodes |-> nodes]

\* The JSON document {}.
EmptyDoc == [is_none |-> FALSE, empty |-> TRUE, nodes |-> <<>>]

\* Documents of one model with any tags and columns, and of two models.
RichDocs ==
    { Doc(<<Node("model", n, tg, cs)>>) :
        n \in ModelNames, tg \in TagLists, cs \in ColumnLists }
    \cup
    { Doc(<<Node("model", p[1], t1, DefaultColumns),
            Node("model", p[2], t2, DefaultColumns)>>) :
        p \in { q \in ModelNames \X ModelNames : q[1] # q[2] },
        t1 \in TagLists, t2 \in TagLists }

\* A few documents for the specification that varies the sources.
FewDocs ==
    { EmptyDoc,
      Doc(<<Node("model", s_api_a, <<s_production, TierName("1")>>,
                 DefaultColumns)>>),
      Doc(<<Node("test", s_api_b, <<s_production, TierName("1")>>, <<>>),
            Node("model", s_foo, <<TierName("2")>>, DefaultColumns),
            Node("model", s_foo, <<TierName("0")>>, <<>>)>>) }

Entry(model, tier, order_by, parameters) ==
    [model |-> model, path |-> None, tier |-> tier, order_by |-> order_by,
     parameters |-> parameters]

EntryPool ==
    { Entry(s_foo, None, None, <<>>),
      Entry(s_foo, TierName("1"), None, <<>>),
      Entry(s_api_a, s_gold, s_day,
            <<Param(s_day, s_day, s_ge, s_type_date)>>),
      Entry(s_ghost, TierName("0"), None, <<>>) }

EndpointLists ==
    UNION { [1..n -> EntryPool] : n \in 0..MaxEndpoints }

NoManual == [kind |-> "absent", endpoints |-> <<>>]

ManualConfigs ==
    { NoManual, [kind |-> "empty", endpoints |-> <<>>] }
    \cup { [kind |-> "dict", endpoints |-> eps] : eps \in EndpointLists }

FewManualConfigs ==
    { NoManual,
      [kind |-> "dict", endpoints |-> <<>>],
      [kind |-> "dict", endpoints |-> <<Entry(s_foo, None, None, <<>>)>>],
      [kind |-> "dict",
       endpoints |-> <<Entry(s_ghost, TierName("0"), None, <<>>)>>] }

Source(kind, doc) == [kind |-> kind, doc |-> doc]

UrlResults(docs) ==
    { Source(k, NoData) :
        k \in {"not_configured", "transport_error", "non200", "bad_json"} }
    \cup { Source("ok", d) : d \in docs }

LocalResults(docs) ==
    { Source(k, NoData) : k \in {"absent", "bad_json"} }
    \cup { Source("ok", d) : d \in docs }

TierIdle ==
    /\ user_tier = None
    /\ required_tier = None
    /\ access = "none"

BootStart ==
    /\ pc = "start"
    /\ load_trace = <<>>
    /\ models = <<>>
    /\ routes = <<>>
    /\ boot_error = ""

\* Every outcome of the two sources, few documents and configurations.
InitSources ==
    /\ url_result \in UrlResults(FewDocs)
    /\ local_result \in LocalResults(FewDocs)
    /\ manual_yaml \in FewManualConfigs

\* The URL serves the manifest; every document and configuration.
InitRich ==
    /\ url_result \in { Source("ok", d) : d \in RichDocs }
    /\ local_result = Source("absent", NoData)
    /\ manual_yaml \in ManualConfigs

InitBoot ==
    /\ TierIdle
    /\ ServeIdle
    /\ BootStart
    /\ (InitSources \/ InitRich)

SpecBoot == InitBoot /\ [][NextBoot]_vars


-----------------------------------------------------------------------------
(* Claims about start-up and route synthesis, checked under SpecBoot.      *)

\* Route building has run (to its end or to an exception).
AfterBuild == pc \in {"routes_built", "serving", "crashed"}

\* Route building has run to its end.
Built == pc \in {"routes_built", "serving"}

HasRoute(name) == \E i \in 1..Len(routes) : routes[i].name = name

ManualNames == { manual_yaml.endpoints[i].model :
                   i \in 1..Len(manual_yaml.endpoints) }

\* The name starts with 'api_' and the tags contain 'production'.
MeetsAutoCriteria(node) ==
    /\ Len(node.name) >= 4
    /\ node.name[1] = "a" /\ node.name[2] = "p"
    /\ node.name[3] = "i" /\ node.name[4] = "_"
    /\ \E k \in 1..Len(node.tags) : node.tags[k] = s_production

\* Neither manifest source yielded data.
NoSourceData ==
    /\ ~(url_result.kind = "ok" /\ ~url_result.doc.empty)
    /\ ~(local_result.kind = "ok" /\ ~local_result.doc.empty)

\* C5: after route building, an indexed model that fails an auto-selection
\* criterion and that no manual entry names has no route; and when route
\* building has run to its end, an indexed model has a route exactly when it
\* meets both criteria or a manual entry names it.
C5_OnlySelectedModelsExposed ==
    /\ AfterBuild =>
         \A i \in 1..Len(models) :
            (~MeetsAutoCriteria(models[i]) /\ models[i].name \notin ManualNames)
               => ~HasRoute(models[i].name)
    /\ Built =>
         \A i \in 1..Len(models) :
            HasRoute(models[i].name)
               <=> (MeetsAutoCriteria(models[i])
                    \/ models[i].name \in ManualNames)

\* A served application with an auto-selected model routed, and indexed
\* models without a route: one that lacks the prefix and one that lacks the
\* tag.
C5_Witness ==
    /\ pc = "serving"
    /\ \E i \in 1..Len(models) :
          MeetsAutoCriteria(models[i]) /\ HasRoute(models[i].name)
    /\ \E i \in 1..Len(models) :
          /\ ~HasRoute(models[i].name)
          /\ (~StartsWith(models[i].name, s_api_prefix)
              \/ ~InSeq(s_production, models[i].tags))

\* C6: after route building exactly one route is registered per exposed
\* model: the registration names are pairwise different.
C6_RouteNamesUnique ==
    AfterBuild =>
        \A i, j \in 1..Len(routes) : i # j => routes[i].name # routes[j].name

\* C7: the URL is attempted first; the local file is read only if the URL
\* yielded no data and the path exists; if neither source yields data the
\* index is empty, the load returns, and the process starts and serves.
C7_ManifestLoadOrder ==
    /\ pc # "start" =>
         /\ (url_result.kind # "not_configured" => Len(load_trace) >= 1
                                                   /\ load_trace[1] = "url")
         /\ (\E i \in 1..Len(load_trace) : load_trace[i] = "local") =>
               /\ ~(url_result.kind = "ok" /\ ~url_result.doc.empty)
               /\ local_result.kind # "absent"
         /\ NoSourceData => models = <<>>
    /\ (AfterBuild /\ NoSourceData) => pc # "crashed"

\* C8: with the index empty because no source yielded data, route building
\* completes for any manual configuration and every model a manual entry
\* names gets a route.
C8_ManualRoutesWithoutManifest ==
    (AfterBuild /\ NoSourceData) =>
        /\ pc # "crashed"
        /\ \A m \in ManualNames : HasRoute(m)

RouteOf(name) == routes[CHOOSE i \in 1..Len(routes) : routes[i].name = name]

\* The type of column block_timestamp contains 'DateTime'.
HasBlockTimestamp(node) ==
    \E k \in 1..Len(node.columns) :
        /\ node.columns[k].name = s_block_timestamp
        /\ node.columns[k].data_type # None
        /\ Contains(node.columns[k].data_type, s_DateTime)

\* The column is date-like: its type contains 'Date' or 'Time', or it is
\* named date or timestamp.
DateLike(col) ==
    LET ty == IF col.data_type = None THEN s_String ELSE col.data_type
    IN  \/ Contains(ty, s_Date)
        \/ Contains(ty, s_Time)
        \/ col.name \in {s_date, s_timestamp}

\* No column before block_timestamp is date-like.
BlockTimestampFirst(node) ==
    \E k \in 1..Len(node.columns) :
        /\ node.columns[k].name = s_block_timestamp
        /\ \A j \in 1..(k - 1) : ~DateLike(node.columns[j])

\* The name of the first date-like column of a model that has one.
FirstDateLike(node) ==
    node.columns[CHOOSE k \in 1..Len(node.columns) :
                    /\ DateLike(node.columns[k])
                    /\ \A j \in 1..(k - 1) : ~DateLike(node.columns[j])].name

\* The route's date parameters are start_date (>=) and end_date (<=) on
\* column c, and its ordering is 'c DESC'.
DateRoute(r, c) ==
    /\ SelectSeq(r.allowed_params, LAMBDA q : q.type = s_type_date)
         = << Param(s_start_date, c, s_ge, s_type_date),
              Param(s_end_date, c, s_le, s_type_date) >>
    /\ r.order_by = c \o s_DESC

BlockTimestampRoute(r) == DateRoute(r, s_block_timestamp)

\* C10 as stated: every routed model without a manual override whose
\* columns include a DateTime block_timestamp, whatever its other columns.
C10_AnyColumnOrder ==
    \A i \in 1..Len(models) :
        (/\ HasRoute(models[i].name)
         /\ models[i].name \notin ManualNames
         /\ HasBlockTimestamp(models[i]))
           => BlockTimestampRoute(RouteOf(models[i].name))

\* C10 amended: the same for the models in which no date-like column comes
\* before block_timestamp; in the others the date parameters and the
\* ordering are on the first date-like column.
C10_BlockTimestampFirst ==
    \A i \in 1..Len(models) :
        (/\ HasRoute(models[i].name)
         /\ models[i].name \notin ManualNames
         /\ HasBlockTimestamp(models[i]))
           => IF BlockTimestampFirst(models[i])
              THEN BlockTimestampRoute(RouteOf(models[i].name))
              ELSE /\ FirstDateLike(models[i]) # s_block_timestamp
                   /\ DateRoute(RouteOf(models[i].name),
                                FirstDateLike(models[i]))

\* A served route of a model whose block_timestamp comes first and is
\* followed by another date-like column and by non-date columns.
C10_Witness ==
    /\ pc = "serving"
    /\ \E i \in 1..Len(models) :
          /\ HasRoute(models[i].name)
          /\ models[i].name \notin ManualNames
          /\ HasBlockTimestamp(models[i])
          /\ BlockTimestampFirst(models[i])
          /\ models[i].columns[1].name = s_block_timestamp
          /\ Len(models[i].columns) >= 3
          /\ Contains(models[i].columns[2].data_type, s_Date)
          /\ BlockTimestampRoute(RouteOf(models[i].name))


-----------------------------------------------------------------------------
(* The tier check as a function: can_access_tier applied to a pair of tier *)
(* strings.                                                                *)

BootIdle ==
    /\ BootStart
    /\ url_result = Source("not_configured", NoData)
    /\ local_result = Source("absent", NoData)
    /\ manual_yaml = NoManual

InitTier ==
    /\ user_tier \in TierStrings
    /\ required_tier \in TierStrings
    /\ access = "none"
    /\ BootIdle
    /\ ServeIdle

CheckTier ==
    /\ access = "none"
    /\ access' = IF can_access_tier(user_tier, required_tier)
                 THEN "granted" ELSE "denied"
    /\ UNCHANGED <<user_tier, required_tier>>
    /\ UNCHANGED bootVars
    /\ UNCHANGED serveVars
    /\ UNCHANGED sqlVars

SpecTier == InitTier /\ [][CheckTier]_vars

\* The number a run of decimal digits denotes.
RECURSIVE DecimalValue(_)
DecimalValue(ds) ==
    IF ds = <<>> THEN 0
    ELSE 10 * DecimalValue(SubSeq(ds, 1, Len(ds) - 1))
         + (CASE ds[Len(ds)] = "0" -> 0 [] ds[Len(ds)] = "1" -> 1
              [] ds[Len(ds)] = "2" -> 2 [] ds[Len(ds)] = "3" -> 3
              [] ds[Len(ds)] = "4" -> 4 [] ds[Len(ds)] = "5" -> 5
              [] ds[Len(ds)] = "6" -> 6 [] ds[Len(ds)] = "7" -> 7
              [] ds[Len(ds)] = "8" -> 8 [] ds[Len(ds)] = "9" -> 9)

\* 'tier' followed by one or more digits.
IsTierDigits(s) ==
    /\ Len(s) >= 5
    /\ s[1] = "t" /\ s[2] = "i" /\ s[3] = "e" /\ s[4] = "r"
    /\ \A i \in 5..Len(s) :
          s[i] \in {"0", "1", "2", "3", "4", "5", "6", "7", "8", "9"}

\* The level as the claim states it: 'tier' followed by digits gives the
\* number (tier0..tier3 among them), anything else -1.
StatedLevel(s) ==
    IF IsTierDigits(s) THEN DecimalValue(SubSeq(s, 5, Len(s))) ELSE -1

\* The string with its letters lower-cased and one trailing newline dropped.
Normalised(s) ==
    LET low == [i \in 1..Len(s) |->
                  CASE s[i] = "T" -> "t" [] s[i] = "I" -> "i"
                    [] s[i] = "E" -> "e" [] s[i] = "R" -> "r"
                    [] OTHER -> s[i]]
    IN  IF Len(low) > 0 /\ low[Len(low)] = "\n"
        THEN SubSeq(low, 1, Len(low) - 1) ELSE low

\* The level as amended: the stated level of the normalised string.
AmendedLevel(s) == StatedLevel(Normalised(s))

GrantedBy(level(_), u, r) ==
    level(u) >= 0 /\ level(r) >= 0 /\ level(u) >= level(r)

\* C3 as stated: access is granted exactly when both tiers parse, as exact
\* 'tier' + digits, to a non-negative level and the caller's level is at
\* least the required one.
C3_GrantIffStatedLevels ==
    access # "none" =>
        (access = "granted" <=> GrantedBy(StatedLevel, user_tier, required_tier))

\* C3 amended: the same with the levels parsed without regard to letter
\* case and to one trailing newline; an unrecognised tier on either side
\* never grants, and a caller of at least the level of a granted caller is
\* granted too.
C3_GrantIffLevels ==
    access # "none" =>
        /\ access = "granted"
             <=> GrantedBy(AmendedLevel, user_tier, required_tier)
        /\ (AmendedLevel(user_tier) = -1 \/ AmendedLevel(required_tier) = -1)
             => access = "denied"
        /\ access = "granted" =>
             \A t \in TierStrings :
                AmendedLevel(t) >= AmendedLevel(user_tier)
                   => can_access_tier(t, required_tier)

\* A grant to a caller whose tier is written in upper case and lies above
\* the required tier.
C3_Witness ==
    /\ access = "granted"
    /\ user_tier = <<"T", "I", "E", "R", "2">>
    /\ required_tier = TierName("1")


-----------------------------------------------------------------------------
(* The required tier of a synthesized route, checked under SpecBoot.       *)

\* The names route building exposes: the indexed models meeting both
\* auto-selection criteria and the models manual entries name.
ExposedNames ==
    { models[i].name : i \in { j \in 1..Len(models) :
                                 MeetsAutoCriteria(models[j]) } }
    \cup ManualNames

\* The manual entries that name a model; {} stands in when there is none.
OverridesOf(name) ==
    IF name \in ManualNames
    THEN { manual_yaml.endpoints[i] :
             i \in { j \in 1..Len(manual_yaml.endpoints) :
                       manual_yaml.endpoints[j].model = name } }
    ELSE {EmptyOverride}

\* The tags of an indexed model, none for a model the index lacks.
TagsOf(name) ==
    IF \E i \in 1..Len(models) : models[i].name = name
    THEN models[CHOOSE i \in 1..Len(models) : models[i].name = name].tags
    ELSE <<>>

\* The tags that are 'tier' + digits without regard to case, in tag order.
TierTags(tags) == SelectSeq(tags, LAMBDA tg : IsTierDigits(Lower(tg)))

\* C11: after route building every exposed model has a route, and the
\* required tier of each of its routes is the 'tier' field of a manual entry
\* naming it when that entry has one, whatever the tags; otherwise the
\* lower-cased first tag that is 'tier' + digits; otherwise the configured
\* default endpoint tier (any value Settings gives).
C11_RequiredTier ==
    AfterBuild =>
        \A n \in ExposedNames :
            /\ HasRoute(n)
            /\ \A i \in 1..Len(routes) :
                  routes[i].name = n =>
                    \E o \in OverridesOf(n) :
                       IF o.tier # None
                       THEN routes[i].required_tier = o.tier
                       ELSE TierTags(TagsOf(n)) # <<>> =>
                              routes[i].required_tier
                                = Lower(TierTags(TagsOf(n))[1])


-----------------------------------------------------------------------------
(* The serving application: start-up, then requests.                       *)

\* An entry of settings.API_KEYS: the tier string config.py declares.
KeyTier(tier) == [type |-> "str", user |-> "", tier |-> tier]

ApiKeyMaps ==
    { <<>>,
      [k \in {"k1", "k2"} |->
         IF k = "k1" THEN KeyTier(TierName("1")) ELSE KeyTier(TierName("3"))],
      [k \in {"k1", "k2"} |->
         IF k = "k1" THEN KeyTier(TierName("0"))
         ELSE KeyTier(<<"b", "o", "g", "u", "s">>)] }

Headers == {NoHeader, "", "k1", "k2", "zz"}

ServeColumns ==
    <<Col(s_block_timestamp, s_DateTime), Col(s_address, s_String),
      Col(s_status, s_String)>>

ServeDocs ==
    { Doc(<<Node("model", s_api_a, <<s_production, TierName("1")>>,
                 ServeColumns)>>),
      Doc(<<Node("model", s_api_a,
                 <<s_dbt, <<"T", "i", "e", "r", "0">>, s_production>>,
                 ServeColumns),
            Node("model", s_api_b, <<s_production, TierName("2")>>,
                 DefaultColumns)>>) }

ServeManuals ==
    { NoManual,
      [kind |-> "dict",
       endpoints |-> <<Entry(s_api_a, s_gold, s_day,
                             <<Param(s_day, s_day, s_ge, s_type_date)>>)>>] }

QPair(name, value) == [name |-> name, value |-> value]

v_hex == <<"0", "x", "A", "B">>
v_wild == <<"%", "x", "A">>
v_quote == <<"1", "'", " ", "O", "R", " ", "'", "1">>

ServeQueries ==
    { <<>>,
      <<QPair(s_address, v_hex), QPair(s_status, v_quote)>>,
      <<QPair(s_start_date, <<>>), QPair(s_day, v_wild)>> }

RouteNames == { routes[i].name : i \in 1..Len(routes) }

InitServe ==
    /\ TierIdle
    /\ BootStart
    /\ url_result \in { Source("ok", d) : d \in ServeDocs }
    /\ local_result = Source("absent", NoData)
    /\ manual_yaml \in ServeManuals
    /\ api_keys \in ApiKeyMaps
    /\ SqlIdle
    /\ last = NoRequest
    /\ now = 0
    /\ storage = NoHits
    /\ sent = NoHits

Request ==
    \E endpoint \in RouteNames \cup {s_root}, h \in Headers,
       addr \in Addresses, qp \in ServeQueries, limit \in {0, 100},
       db_ok \in BOOLEAN :
        Serve(endpoint, h, addr, qp, limit, 0, db_ok, sent)

Next == NextBoot \/ Request

Spec == InitServe /\ [][Next]_vars

-----------------------------------------------------------------------------
(* The serving application under load: requests counted per limiting key   *)
(* and fixed window, and the clock.                                        *)

\* The clock advances in steps of TickSeconds up to MaxClock.
TickSeconds == 30

MaxClock == 90

\* The most requests per window of the caller without a key.
MaxAnonymous == 2

InitRate ==
    /\ TierIdle
    /\ BootStart
    /\ url_result = Source("ok",
          Doc(<<Node("model", s_api_a, <<s_production, TierName("1")>>,
                     ServeColumns)>>))
    /\ local_result = Source("absent", NoData)
    /\ manual_yaml = NoManual
    /\ api_keys = [k \in {"k1"} |-> KeyTier(TierName("1"))]
    /\ SqlIdle
    /\ last = NoRequest
    /\ now = 0
    /\ storage = NoHits
    /\ sent = NoHits

\* The requests counted so far in the window of k, if it is still open.
OpenCount(k) == IF now >= sent[k].until THEN 0 ELSE sent[k].count

CountedRequest ==
    \E endpoint \in RouteNames, h \in {NoHeader, "k1"}, addr \in Addresses :
        /\ OpenCount("k1") <= RateLimit
        /\ h = NoHeader => OpenCount(addr) < MaxAnonymous
        /\ Serve(endpoint, h, addr, <<>>, 100, 0, TRUE,
                 [sent EXCEPT ![get_rate_limit_key(h, addr)] =
                    Hit(sent[get_rate_limit_key(h, addr)], now)])

Tick ==
    /\ pc = "serving"
    /\ now + TickSeconds <= MaxClock
    /\ now' = now + TickSeconds
    /\ UNCHANGED <<api_keys, last, storage, sent>>
    /\ UNCHANGED bootVars
    /\ UNCHANGED tierVars
    /\ UNCHANGED sqlVars

NextRate == NextBoot \/ CountedRequest \/ Tick

SpecRate == InitRate /\ [][NextRate]_vars


\* C4: a request is answered 429 exactly when it is beyond the 200th of its
\* limiting key in the current 60-second window: the 201st is, the first
\* 200 are not, and the count starts again in the next window.
C4_RateLimitEnforced ==
    last.endpoint # None =>
        (last.response.status = 429
            <=> sent[last.limit_key].count > RateLimit)

-----------------------------------------------------------------------------
(* Claims about requests, checked under Spec.                              *)

ToRoute == last.endpoint # None /\ last.endpoint # s_root

LastRoute ==
    routes[CHOOSE i \in 1..Len(routes) :
              /\ routes[i].name = last.endpoint
              /\ \A j \in 1..(i - 1) : routes[j].name # last.endpoint]

KeyKnown == last.header \in DOMAIN api_keys

MissingKey == last.header = NoHeader \/ last.header = ""

\* The level of a tier string: 'tier' + digits without regard to case.
LevelOf(s) == AmendedLevel(s)

\* C1: a request to a synthesized route is answered 403 "missing" without a
\* key, 403 "invalid" with an unknown key, 403 "access denied" with a known
\* key of a tier below the route's, and reaches the query with a known key
\* of a tier at or above the route's.
C1_AuthOutcomes ==
    ToRoute =>
        /\ MissingKey =>
              /\ last.response.status = 403
              /\ last.response.detail = "Missing authentication header: X-API-Key"
        /\ (~MissingKey /\ ~KeyKnown) =>
              /\ last.response.status = 403
              /\ last.response.detail = "Invalid API Key"
        /\ (~MissingKey /\ KeyKnown
            /\ LevelOf(api_keys[last.header].tier)
                 < LevelOf(LastRoute.required_tier)) =>
              /\ last.response.status = 403
              /\ last.response.detail = "Access denied"
        /\ (~MissingKey /\ KeyKnown
            /\ last.limit >= 1 /\ last.limit <= 5000 /\ last.offset >= 0
            /\ LevelOf(api_keys[last.header].tier)
                 >= LevelOf(LastRoute.required_tier)) =>
              last.response.queried

\* C2: the query is invoked only for a request whose key get_api_key
\* recognises and whose tier passes the check against the route's required
\* tier; a request answered 403 builds no statement and runs no query.
C2_QueryOnlyAfterChecks ==
    ToRoute =>
        /\ (last.response.queried \/ last.response.sql # None) =>
              /\ ~MissingKey
              /\ KeyKnown
              /\ GrantedBy(LevelOf, api_keys[last.header].tier,
                           LastRoute.required_tier)
        /\ last.response.status = 403 =>
              /\ ~last.response.queried
              /\ last.response.sql = None

\* Requests denied for each reason the code reaches: no key on a route any
\* tier may read, or a key the mapping does not hold; nothing is queried.
C2_Witness ==
    /\ ToRoute
    /\ last.response.status = 403
    /\ ~last.response.queried
    /\ LastRoute.required_tier = TierName("0")
    /\ \/ last.header = NoHeader
       \/ (last.header = "zz" /\ api_keys # <<>>)


-----------------------------------------------------------------------------
(* The statement of dynamic_handler as a function: BuildSql applied, for   *)
(* one route, to two requests.                                             *)

v_date == <<"2", "0", "2", "4", "-", "0", "1", "-", "3", "1">>
v_drop == <<"1", ";", "D", "R", "O", "P">>

\* Routes synthesized from one indexed model: default filters with and
\* without ordering, no filters, and configured filters (one LIKE, one
\* without operator) with a configured ordering.
SqlRoutes ==
    { create_auto_route(
          IndexNodes(<<>>, <<Node("model", s_api_a,
                                  <<s_production, TierName("1")>>, c[1])>>),
          s_api_a, c[2]).route :
        c \in { <<ServeColumns, EmptyOverride>>,
                <<(<<>>), EmptyOverride>>,
                <<(<<Col(s_value, s_UInt64), Col(s_address, s_String)>>),
                  EmptyOverride>>,
                <<ServeColumns,
                  Entry(s_api_a, None, s_day,
                        <<Param(s_day, s_day, s_ge, s_type_date),
                          Param(s_address, s_address, s_LIKE, s_type_string),
                          Param(s_status, s_status, None, s_type_string)>>)>>
              } }

\* Query strings: filters present, empty, repeated, in either order, and a
\* name that is no filter.
SqlQueries ==
    { <<>>,
      <<QPair(s_address, v_hex)>>,
      <<QPair(s_address, v_wild)>>,
      <<QPair(s_address, v_quote), QPair(s_status, v_hex)>>,
      <<QPair(s_status, v_drop), QPair(s_address, v_hex)>>,
      <<QPair(s_status, <<>>), QPair(s_address, v_quote)>>,
      <<QPair(s_address, v_hex), QPair(s_address, v_drop)>>,
      <<QPair(s_start_date, v_date), QPair(s_end_date, v_quote)>>,
      <<QPair(s_end_date, v_date), QPair(s_start_date, v_drop),
        QPair(s_value, v_hex)>>,
      <<QPair(s_day, v_wild)>>,
      <<QPair(s_day, v_date), QPair(s_value, v_quote)>> }

SqlRequest(qp, limit, offset) == [qp |-> qp, limit |-> limit, offset |-> offset]

InitSql ==
    /\ TierIdle
    /\ BootIdle
    /\ api_keys = <<>>
    /\ last = NoRequest
    /\ now = 0
    /\ storage = NoHits
    /\ sent = NoHits
    /\ sql_route \in SqlRoutes
    /\ sql_a \in { SqlRequest(qp, 100, 0) : qp \in SqlQueries }
    /\ sql_b \in { SqlRequest(qp, l, o) :
                     qp \in SqlQueries, l \in {1, 5000}, o \in {0, 7} }
    /\ sql_out = None

\* The statement and the bindings of each of the two requests.
BuildBoth ==
    /\ sql_out = None
    /\ sql_out' = << BuildSql(sql_route, sql_a.qp, sql_a.limit, sql_a.offset),
                     BuildSql(sql_route, sql_b.qp, sql_b.limit, sql_b.offset) >>
    /\ UNCHANGED <<sql_route, sql_a, sql_b>>
    /\ UNCHANGED tierVars
    /\ UNCHANGED bootVars
    /\ UNCHANGED serveVars

SpecSql == InitSql /\ [][BuildBoth]_vars

\* The filter names of the route a query string supplies with a value.
SuppliedNames(route, qp) ==
    { route.allowed_params[i].name : i \in
        { j \in 1..Len(route.allowed_params) :
            LET n == route.allowed_params[j].name
            IN  \E k \in 1..Len(qp) :
                  /\ qp[k].name = n
                  /\ \A m \in (k + 1)..Len(qp) : qp[m].name # n
                  /\ qp[k].value # <<>> } }

\* The value a query string gives a name (of its last pair of that name).
ValueOf(qp, n) ==
    qp[CHOOSE k \in 1..Len(qp) :
          /\ qp[k].name = n
          /\ \A m \in (k + 1)..Len(qp) : qp[m].name # n].value

\* The statement holds no caller value and the bindings hold them all.
ValuesOnlyBound(route, req, out) ==
    /\ \A k \in 1..Len(req.qp) :
          req.qp[k].value # <<>> => ~Contains(out.sql, req.qp[k].value)
    /\ out.bindings.limit = req.limit
    /\ out.bindings.offset = req.offset
    /\ { out.bindings.filters[i].key :
           i \in 1..Len(out.bindings.filters) }
         = { s_p_ \o n : n \in SuppliedNames(route, req.qp) }
    /\ \A i \in 1..Len(out.bindings.filters) :
          \E n \in SuppliedNames(route, req.qp) :
             /\ out.bindings.filters[i].key = s_p_ \o n
             /\ out.bindings.filters[i].value
                  \in { ValueOf(req.qp, n),
                        <<"%">> \o ValueOf(req.qp, n) \o <<"%">> }

\* C9: for one route, two requests supplying the same filter names with a
\* value give the same statement text whatever the values, the limit and the
\* offset; no supplied value occurs in the text, and each is in the
\* bindings, as are limit and offset.
C9_SqlIndependentOfValues ==
    sql_out # None =>
        /\ SuppliedNames(sql_route, sql_a.qp) = SuppliedNames(sql_route, sql_b.qp)
             => sql_out[1].sql = sql_out[2].sql
        /\ ValuesOnlyBound(sql_route, sql_a, sql_out[1])
        /\ ValuesOnlyBound(sql_route, sql_b, sql_out[2])

\* Two requests filtering on the same two names with different values,
\* limits and offsets: one statement with a WHERE clause.
C9_Witness ==
    /\ sql_out # None
    /\ SuppliedNames(sql_route, sql_a.qp) = {s_address, s_status}
    /\ SuppliedNames(sql_route, sql_b.qp) = {s_address, s_status}
    /\ sql_a.qp # sql_b.qp
    /\ sql_a.limit # sql_b.limit
    /\ sql_a.offset # sql_b.offset
    /\ Contains(sql_out[1].sql, s_where)
    /\ sql_out[1].sql = sql_out[2].sql

====
